---- MODULE Spec2Model ----
(***************************************************************************)
(* Set data objects of pyomo/core/base/set.py: _FiniteSetData and          *)
(* _OrderedSetData (with the _OrderedSetMixin positional methods).         *)
(*                                                                         *)
(* One set object is modelled.  Its class is fixed by the constructor      *)
(* (kind), every public method is one action, and the variable `call`      *)
(* records the most recent call: the method, how it ended, and the order   *)
(* state it found.                                                         *)
(*                                                                         *)
(* Spec is the finite or ordered set under add and the ordered accesses.   *)
(* SpecA is the set algebra of _SetData (__eq__, isdisjoint, issubset,     *)
(* issuperset) between the object, finite or an _InfiniteSet, and a second *)
(* set object `other`.                                                     *)
(***************************************************************************)
EXTENDS Integers, Sequences, FiniteSets

\* Atoms are the integers 1..MaxAtom; indices and steps range over
\* -MaxStep..MaxStep.
MaxAtom == 2
MaxStep == 3

\* An _InfiniteSet is constructed with at most MaxRanges ranges.
MaxRanges == 2

(***************************************************************************)
(* Python values.  A value is an atom or a tuple of values; all values are *)
(* records of one shape so that they can be stored in one set.             *)
(***************************************************************************)
Atom(n) == [tup |-> FALSE, atom |-> n, items |-> <<>>]
Tuple(xs) == [tup |-> TRUE, atom |-> 0, items |-> xs]

\* Placeholder in a call record for "no element returned".
NoValue == Atom(0)

Atoms == {Atom(n) : n \in 1..MaxAtom}

\* The values handed to the methods: the atoms, the flat tuple (1, 2) and
\* the nested tuple (1, (2,)), which flatten_tuple maps to (1, 2).
FlatPair == Tuple(<<Atom(1), Atom(2)>>)
NestedPair == Tuple(<<Atom(1), Tuple(<<Atom(2)>>)>>)
RawValues == Atoms \cup {FlatPair, NestedPair}

\* pyutilib.misc.flatten_tuple: a non-tuple is returned as it is, a tuple
\* is returned with every nested tuple spliced in place.
RECURSIVE flatten(_)
flatten(xs) ==
    IF xs = <<>> THEN <<>>
    ELSE LET h == Head(xs)
         IN (IF h.tup THEN flatten(h.items) ELSE <<h>>) \o flatten(Tail(xs))

flatten_tuple(x) == IF x.tup THEN Tuple(flatten(x.items)) ELSE x

\* The values a set can hold.
Canonical == {flatten_tuple(v) : v \in RawValues}

(***************************************************************************)
(* The total order used by sorted_robust: atoms by value, every atom       *)
(* before every tuple, flat tuples lexicographically.                      *)
(***************************************************************************)
RECURSIVE LexLess(_, _)
LexLess(xs, ys) ==
    IF ys = <<>> THEN FALSE
    ELSE IF xs = <<>> THEN TRUE
    ELSE IF Head(xs).atom # Head(ys).atom THEN Head(xs).atom < Head(ys).atom
    ELSE LexLess(Tail(xs), Tail(ys))

Less(a, b) ==
    IF a.tup # b.tup THEN b.tup
    ELSE IF a.tup THEN LexLess(a.items, b.items)
    ELSE a.atom < b.atom

RECURSIVE insert(_, _)
insert(x, s) ==
    IF s = <<>> THEN <<x>>
    ELSE IF Less(x, Head(s)) THEN <<x>> \o s
    ELSE <<Head(s)>> \o insert(x, Tail(s))

RECURSIVE sorted_robust(_)
sorted_robust(s) ==
    IF s = <<>> THEN <<>> ELSE insert(Head(s), sorted_robust(Tail(s)))

(***************************************************************************)
(* _OrderedSetData class attributes and the value of _is_sorted left by    *)
(* the constructor (None).                                                 *)
(***************************************************************************)
Unresolved == 0
InsertionOrder == 1
Sorted == 2
SortNeeded == 3
DataOK == {InsertionOrder, Sorted}

\* What parent_component().ordering(self) may answer.  _sort asks once,
\* while _is_sorted is None, so the owner's answer is fixed per object.
Orderings == {InsertionOrder, Sorted}

\* The domains a set is given: Any (the constructor's default), a finite
\* set of the canonical values, and a set that lacks the atom 1.  The
\* constructor of an ordered set leaves Any; its owner assigns _domain.
AnyDomain == RawValues
Domains == {AnyDomain, Canonical, RawValues \ {Atom(1)}}

VARIABLES kind, domain, ordering, values, ordered_values, is_sorted, call,
          ranges, other

vars == <<kind, domain, ordering, values, ordered_values, is_sorted, call,
          ranges, other>>

\* The fields of the object as one record; the method operators below map
\* such a record to the record after the call and the call's outcome.
Self == [values |-> values, ordered_values |-> ordered_values,
         is_sorted |-> is_sorted]

\* The outcome of a call: the fields after it, how it ended ("ok", "warned"
\* for a normal return after logger.warning, or the exception), and what
\* it returned (an element, a position or a sequence).
Ret(s, outcome, elem, pos, seq) ==
    [st |-> s, outcome |-> outcome, elem |-> elem, pos |-> pos, seq |-> seq]

Returns(s) == Ret(s, "ok", NoValue, 0, <<>>)
Raises(s, exc) == Ret(s, exc, NoValue, 0, <<>>)

\* The IndexErrors of the ordered set: ord's "item not in Set", the three
\* of __getitem__, and the one of a Python list indexed out of its range.
IndexErrors == {"NotFound", "PastLast", "BeforeFirst", "InvalidIndex",
                "ListIndex"}

(***************************************************************************)
(* _FiniteSetData                                                          *)
(***************************************************************************)
\* Mutant of FiniteSetData_add: the value is inserted before the domain is
\* checked.
finite_add_checking_late(s, dom, value) ==
    LET v == flatten_tuple(value)
        t == [s EXCEPT !.values = s.values \cup {v}]
    IN IF value \notin dom THEN Raises(t, "DomainViolation")
       ELSE IF v \in s.values THEN Ret(t, "warned", NoValue, 0, <<>>)
       ELSE Returns(t)

\* _FiniteSetData.add: _values is a Python set, so set.add of a value that
\* is already there changes nothing.
FiniteSetData_add(s, dom, value) ==
    IF value \notin dom THEN Raises(s, "DomainViolation")
    ELSE LET v == flatten_tuple(value)
             t == [s EXCEPT !.values = s.values \cup {v}]
         IN IF v \in s.values THEN Ret(t, "warned", NoValue, 0, <<>>)
            ELSE Returns(t)

\* _FiniteSetData.__contains__, which _OrderedSetData inherits: "item in
\* self._values" looks the item up as it is given, in the set of a finite
\* set and among the keys of the mapping of an ordered one.
FiniteSetData_contains(k, s, item) ==
    IF k = "finite" THEN item \in s.values ELSE item \in DOMAIN s.values

(***************************************************************************)
(* _OrderedSetData: _values maps each element to its 0-based position in   *)
(* _ordered_values.                                                        *)
(***************************************************************************)
\* len(self) is len(self._values).
len(s) == Cardinality(DOMAIN s.values)

\* dict((j, i) for i, j in enumerate(seq)): a later occurrence of an
\* element overwrites an earlier one.
enumerate_dict(seq) ==
    [x \in {seq[i] : i \in 1..Len(seq)} |->
        (CHOOSE i \in 1..Len(seq) :
            /\ seq[i] = x
            /\ \A j \in 1..Len(seq) : seq[j] = x => j <= i) - 1]

\* Mutant of sort: the sequence is sorted and the mapping is not rebuilt.
sort_stale_mapping(s, o) ==
    LET r == IF s.is_sorted = Unresolved THEN [s EXCEPT !.is_sorted = o]
             ELSE s
    IN IF r.is_sorted = SortNeeded
       THEN [r EXCEPT !.ordered_values = sorted_robust(r.ordered_values),
                      !.is_sorted = Sorted]
       ELSE r

\* Mutant of sort: the last element of the sequence is left out of the
\* sorted sequence.
sort_truncating(s, o) ==
    LET r == IF s.is_sorted = Unresolved THEN [s EXCEPT !.is_sorted = o]
             ELSE s
        n == Len(r.ordered_values)
        sv == sorted_robust(SubSeq(r.ordered_values, 1, n - 1))
    IN IF r.is_sorted = SortNeeded
       THEN [values |-> enumerate_dict(sv), ordered_values |-> sv,
             is_sorted |-> Sorted]
       ELSE r

\* _OrderedSetData._sort; o is the answer of the owner's ordering().
sort(s, o) ==
    LET r == IF s.is_sorted = Unresolved THEN [s EXCEPT !.is_sorted = o]
             ELSE s
        sv == sorted_robust(r.ordered_values)
    IN IF r.is_sorted = SortNeeded
       THEN [values |-> enumerate_dict(sv), ordered_values |-> sv,
             is_sorted |-> Sorted]
       ELSE r

\* Mutant of resolve: only an unresolved order is resolved, SortNeeded is
\* taken for resolved.
resolve_only_unresolved(s, o) ==
    IF s.is_sorted = Unresolved THEN sort(s, o) ELSE s

\* "if self._is_sorted not in self._DataOK: self._sort()", the first
\* statement of every order-dependent method.
resolve(s, o) == IF s.is_sorted \notin DataOK THEN sort(s, o) ELSE s

\* A Python list indexed with k: 0-based, a negative k counts from the end.
list_getitem(s, seq, k) ==
    LET j == IF k < 0 THEN Len(seq) + k ELSE k
    IN IF j >= 0 /\ j < Len(seq) THEN Ret(s, "ok", seq[j + 1], 0, <<>>)
       ELSE Raises(s, "ListIndex")

OrderedSetData_iter(s, o) ==
    LET t == resolve(s, o) IN Ret(t, "ok", NoValue, 0, t.ordered_values)

OrderedSetData_data(s, o) ==
    LET t == resolve(s, o) IN Ret(t, "ok", NoValue, 0, t.ordered_values)

\* Mutant of OrderedSetData_add: a Sorted set is resorted at once.
add_resorting(s, dom, value) ==
    IF value \notin dom THEN Raises(s, "DomainViolation")
    ELSE LET v == flatten_tuple(value)
             t == [values |-> [x \in DOMAIN s.values \cup {v} |->
                                 IF x = v THEN len(s) ELSE s.values[x]],
                   ordered_values |-> Append(s.ordered_values, v),
                   is_sorted |-> IF s.is_sorted = Sorted THEN SortNeeded
                                 ELSE s.is_sorted]
         IN IF v \in DOMAIN s.values
            THEN Ret(s, "warned", NoValue, 0, <<>>)
            ELSE Returns(IF t.is_sorted = SortNeeded THEN sort(t, Sorted)
                         ELSE t)

\* Mutant of OrderedSetData_add: the Sorted state is given up before the
\* duplicate test.
add_downgrading_duplicate(s, dom, value) ==
    IF value \notin dom THEN Raises(s, "DomainViolation")
    ELSE LET v == flatten_tuple(value)
             d == IF s.is_sorted = Sorted THEN SortNeeded ELSE s.is_sorted
         IN IF v \in DOMAIN s.values
            THEN Ret([s EXCEPT !.is_sorted = d], "warned", NoValue, 0, <<>>)
            ELSE Returns(
                   [values |-> [x \in DOMAIN s.values \cup {v} |->
                                  IF x = v THEN len(s) ELSE s.values[x]],
                    ordered_values |-> Append(s.ordered_values, v),
                    is_sorted |-> d])

\* Mutant of OrderedSetData_add: the new element is put in front of the
\* sequence and the elements before it move up by one.
add_prepending(s, dom, value) ==
    IF value \notin dom THEN Raises(s, "DomainViolation")
    ELSE LET v == flatten_tuple(value)
         IN IF v \in DOMAIN s.values
            THEN Ret(s, "warned", NoValue, 0, <<>>)
            ELSE Returns(
                   [values |-> [x \in DOMAIN s.values \cup {v} |->
                                  IF x = v THEN 0 ELSE s.values[x] + 1],
                    ordered_values |-> <<v>> \o s.ordered_values,
                    is_sorted |-> IF s.is_sorted = Sorted THEN SortNeeded
                                  ELSE s.is_sorted])

OrderedSetData_add(s, dom, value) ==
    IF value \notin dom THEN Raises(s, "DomainViolation")
    ELSE LET v == flatten_tuple(value)
         IN IF v \in DOMAIN s.values
            THEN Ret(s, "warned", NoValue, 0, <<>>)
            ELSE Returns(
                   [values |-> [x \in DOMAIN s.values \cup {v} |->
                                  IF x = v THEN len(s) ELSE s.values[x]],
                    ordered_values |-> Append(s.ordered_values, v),
                    is_sorted |-> IF s.is_sorted = Sorted THEN SortNeeded
                                  ELSE s.is_sorted])

\* Mutant of getitem: the test of a negative index is off by one, so
\* index(-N) is refused.
getitem_strict_bound(s, o, item) ==
    LET t == resolve(s, o)
    IN IF item >= 1
       THEN IF item > len(t) THEN Raises(t, "PastLast")
            ELSE list_getitem(t, t.ordered_values, item - 1)
       ELSE IF item < 0
       THEN IF len(t) + item <= 0 THEN Raises(t, "BeforeFirst")
            ELSE list_getitem(t, t.ordered_values, item)
       ELSE Raises(t, "InvalidIndex")

getitem(s, o, item) ==
    LET t == resolve(s, o)
    IN IF item >= 1
       THEN IF item > len(t) THEN Raises(t, "PastLast")
            ELSE list_getitem(t, t.ordered_values, item - 1)
       ELSE IF item < 0
       THEN IF len(t) + item < 0 THEN Raises(t, "BeforeFirst")
            ELSE list_getitem(t, t.ordered_values, item)
       ELSE Raises(t, "InvalidIndex")

\* Mutant of ord: an absent item is answered with position 0.
ord_sentinel(s, o, item) ==
    LET t == resolve(s, o)
    IN IF item \in DOMAIN t.values
       THEN Ret(t, "ok", NoValue, t.values[item] + 1, <<>>)
       ELSE Ret(t, "ok", NoValue, 0, <<>>)

ord(s, o, item) ==
    LET t == resolve(s, o)
    IN IF item \in DOMAIN t.values
       THEN Ret(t, "ok", NoValue, t.values[item] + 1, <<>>)
       ELSE Raises(t, "NotFound")

OrderedSetData_ordered(s, o) == OrderedSetData_data(s, o)

OrderedSetData_sorted(s, o) ==
    LET d == OrderedSetData_data(s, o)
    IN IF d.st.is_sorted = Sorted THEN d
       ELSE Ret(d.st, "ok", NoValue, 0, sorted_robust(d.seq))

(***************************************************************************)
(* _OrderedSetMixin                                                        *)
(***************************************************************************)
first(s, o) == getitem(s, o, 1)

last(s, o) == getitem(s, o, len(s))

next(s, o, item, step) ==
    LET p == ord(s, o, item)
    IN IF p.outcome # "ok" THEN p ELSE getitem(p.st, o, p.pos + step)

\* Mutant of nextw: the 1-based position is wrapped as if it were 0-based.
nextw_off_by_one(s, o, item, step) ==
    LET p == ord(s, o, item)
    IN IF p.outcome # "ok" THEN p
       ELSE IF len(p.st) = 0 THEN Raises(p.st, "ZeroDivisionError")
       ELSE getitem(p.st, o, ((p.pos + step) % len(p.st)) + 1)

\* x % 0 raises ZeroDivisionError.
nextw(s, o, item, step) ==
    LET p == ord(s, o, item)
    IN IF p.outcome # "ok" THEN p
       ELSE IF len(p.st) = 0 THEN Raises(p.st, "ZeroDivisionError")
       ELSE getitem(p.st, o, ((p.pos + step - 1) % len(p.st)) + 1)

prev(s, o, item, step) == next(s, o, item, -step)

prevw(s, o, item, step) == nextw(s, o, item, -step)

(***************************************************************************)
(* _InfiniteSet and the set algebra of _SetData.  A set taking part in the *)
(* algebra is a record: finite with its _values, or infinite with its      *)
(* _ranges.                                                                *)
(***************************************************************************)
FiniteSet(vals) == [cls |-> "finite", values |-> vals, ranges |-> <<>>]
InfiniteSet(rs) == [cls |-> "infinite", values |-> {}, ranges |-> rs]

\* An _InfiniteRange is the interval from lo to hi, both included; it holds
\* infinitely many points when it is continuous.
Ranges == {r \in [lo : 1..MaxAtom, hi : 1..MaxAtom] : r.lo <= r.hi}

RangeLists == UNION {[1..n -> Ranges] : n \in 0..MaxRanges}

range_contains(r, val) == ~val.tup /\ r.lo <= val.atom /\ val.atom <= r.hi

range_isdisjoint(r, s) == r.hi < s.lo \/ s.hi < r.lo

range_issubset(r, s) == s.lo <= r.lo /\ r.hi <= s.hi

\* is_finite() of a set object.  _FiniteSetData lists its bases as
\* (_SetData, _FiniteSetMixin), so the method resolution order is
\* _FiniteSetData, _SetData, ComponentData, _FiniteSetMixin: the call finds
\* _SetData.is_finite, which returns False, before the mixin's.  The same
\* holds for _OrderedSetData; _InfiniteSet has only _SetData's.
is_finite(a) == FALSE

\* Only _InfiniteSet defines ranges(); the call raises AttributeError on a
\* _FiniteSetData.
has_ranges(a) == a.cls = "infinite"

\* _FiniteSetData.__contains__ and _InfiniteSet.__contains__.
contains(a, val) ==
    IF a.cls = "finite" THEN val \in a.values
    ELSE \E i \in 1..Len(a.ranges) : range_contains(a.ranges[i], val)

\* What a method of the algebra returns.
Py(b) == IF b THEN "True" ELSE "False"

\* _SetData.__eq__; same says that other is the object itself.
SetData_eq(a, b, same) ==
    IF same THEN "True"
    ELSE IF is_finite(a)
    THEN IF ~is_finite(b) THEN "False"
         ELSE IF Cardinality(a.values) # Cardinality(b.values) THEN "False"
         ELSE Py(\A x \in a.values : contains(b, x))
    ELSE IF is_finite(b) THEN "False"
    ELSE IF ~has_ranges(a) \/ ~has_ranges(b) THEN "AttributeError"
    ELSE Py(a.ranges = b.ranges)

\* _SetData.isdisjoint.  The last branch evaluates all(...) and falls off
\* the end of the method, which returns None; other.ranges() is called once
\* self.ranges() yields a first range.
isdisjoint(a, b) ==
    IF is_finite(a) THEN Py(\A x \in a.values : ~contains(b, x))
    ELSE IF is_finite(b) THEN Py(\A x \in b.values : ~contains(a, x))
    ELSE IF ~has_ranges(a) THEN "AttributeError"
    ELSE IF a.ranges # <<>> /\ ~has_ranges(b) THEN "AttributeError"
    ELSE "None"

\* _SetData.issubset
issubset(a, b) ==
    IF is_finite(a) THEN Py(\A x \in a.values : contains(b, x))
    ELSE IF is_finite(b) THEN "False"
    ELSE IF ~has_ranges(a) THEN "AttributeError"
    ELSE IF a.ranges # <<>> /\ ~has_ranges(b) THEN "AttributeError"
    ELSE Py(\A i \in 1..Len(a.ranges) :
               \E j \in 1..Len(b.ranges) :
                   range_issubset(a.ranges[i], b.ranges[j]))

\* _SetData.issuperset
issuperset(a, b) ==
    IF is_finite(b) THEN Py(\A x \in b.values : contains(a, x))
    ELSE IF is_finite(a) THEN "False"
    ELSE IF ~has_ranges(a) THEN "AttributeError"
    ELSE IF a.ranges # <<>> /\ ~has_ranges(b) THEN "AttributeError"
    ELSE Py(\A i \in 1..Len(a.ranges) :
               \E j \in 1..Len(b.ranges) :
                   range_issubset(b.ranges[j], a.ranges[i]))

(***************************************************************************)
(* The state machine                                                       *)
(***************************************************************************)
Indices == (-MaxStep)..MaxStep

\* _FiniteSetData.__init__ and _OrderedSetData.__init__.  The fields
\* _ordered_values and _is_sorted exist only in an ordered set; in a finite
\* set they keep these values and are never read.
Init ==
    /\ kind \in {"finite", "ordered"}
    /\ domain \in Domains
    /\ ordering \in (IF kind = "ordered" THEN Orderings ELSE {InsertionOrder})
    /\ values = IF kind = "finite" THEN {} ELSE <<>>
    /\ ordered_values = <<>>
    /\ is_sorted = Unresolved
    /\ call = [op |-> "init", outcome |-> "ok", was |-> Unresolved]
    /\ ranges = <<>>
    /\ other = FiniteSet({})

\* A call of method op whose outcome is r.
Call(op, r) ==
    /\ values' = r.st.values
    /\ ordered_values' = r.st.ordered_values
    /\ is_sorted' = r.st.is_sorted
    /\ call' = [op |-> op, outcome |-> r.outcome, was |-> is_sorted]
    /\ UNCHANGED <<kind, domain, ordering, ranges, other>>

FiniteAdd(v) ==
    /\ kind = "finite"
    /\ Call("add", FiniteSetData_add(Self, domain, v))

OrderedAdd(v) ==
    /\ kind = "ordered"
    /\ Call("add", OrderedSetData_add(Self, domain, v))

Iter ==
    /\ kind = "ordered"
    /\ Call("iter", OrderedSetData_iter(Self, ordering))

Data ==
    /\ kind = "ordered"
    /\ Call("data", OrderedSetData_data(Self, ordering))

Ordered ==
    /\ kind = "ordered"
    /\ Call("ordered", OrderedSetData_ordered(Self, ordering))

SortedCall ==
    /\ kind = "ordered"
    /\ Call("sorted", OrderedSetData_sorted(Self, ordering))

GetItem(i) ==
    /\ kind = "ordered"
    /\ Call("getitem", getitem(Self, ordering, i))

Ord(v) ==
    /\ kind = "ordered"
    /\ Call("ord", ord(Self, ordering, v))

First ==
    /\ kind = "ordered"
    /\ Call("first", first(Self, ordering))

Last ==
    /\ kind = "ordered"
    /\ Call("last", last(Self, ordering))

NextCall(v, step) ==
    /\ kind = "ordered"
    /\ Call("next", next(Self, ordering, v, step))

NextW(v, step) ==
    /\ kind = "ordered"
    /\ Call("nextw", nextw(Self, ordering, v, step))

Prev(v, step) ==
    /\ kind = "ordered"
    /\ Call("prev", prev(Self, ordering, v, step))

PrevW(v, step) ==
    /\ kind = "ordered"
    /\ Call("prevw", prevw(Self, ordering, v, step))

Next ==
    \/ \E v \in RawValues : FiniteAdd(v)
    \/ \E v \in RawValues : OrderedAdd(v)
    \/ Iter
    \/ Data
    \/ Ordered
    \/ SortedCall
    \/ \E i \in Indices : GetItem(i)
    \/ \E v \in RawValues : Ord(v)
    \/ First
    \/ Last
    \/ \E v \in RawValues, step \in Indices : NextCall(v, step)
    \/ \E v \in RawValues, step \in Indices : NextW(v, step)
    \/ \E v \in RawValues, step \in Indices : Prev(v, step)
    \/ \E v \in RawValues, step \in Indices : PrevW(v, step)

Spec == Init /\ [][Next]_vars

(***************************************************************************)
(* The state machine of the set algebra                                    *)
(***************************************************************************)
\* The object as a set of the algebra.
SelfSet ==
    IF kind = "finite" THEN FiniteSet(values) ELSE InfiniteSet(ranges)

\* Two objects are constructed: each a _FiniteSetData with the default
\* domain or an _InfiniteSet with its ranges.
InitA ==
    /\ kind \in {"finite", "infinite"}
    /\ domain = AnyDomain
    /\ ordering = InsertionOrder
    /\ values = {}
    /\ ordered_values = <<>>
    /\ is_sorted = Unresolved
    /\ call = [op |-> "init", outcome |-> "ok", was |-> Unresolved]
    /\ ranges \in (IF kind = "infinite" THEN RangeLists ELSE {<<>>})
    /\ other \in {FiniteSet({})} \cup {InfiniteSet(rs) : rs \in RangeLists}

\* other.add(v)
OtherAdd(v) ==
    /\ other.cls = "finite"
    /\ LET r == FiniteSetData_add(other, AnyDomain, v)
       IN /\ other' = r.st
          /\ call' = [op |-> "other.add", outcome |-> r.outcome,
                      was |-> is_sorted]
    /\ UNCHANGED <<kind, domain, ordering, values, ordered_values,
                   is_sorted, ranges>>

\* A call of a method of the algebra with argument other.
Algebra(op, result) ==
    /\ call' = [op |-> op, outcome |-> result, was |-> is_sorted]
    /\ UNCHANGED <<kind, domain, ordering, values, ordered_values,
                   is_sorted, ranges, other>>

Eq == Algebra("eq", SetData_eq(SelfSet, other, FALSE))

IsDisjoint == Algebra("isdisjoint", isdisjoint(SelfSet, other))

IsSubset == Algebra("issubset", issubset(SelfSet, other))

IsSuperset == Algebra("issuperset", issuperset(SelfSet, other))

NextA ==
    \/ \E v \in RawValues : FiniteAdd(v)
    \/ \E v \in RawValues : OtherAdd(v)
    \/ Eq
    \/ IsDisjoint
    \/ IsSubset
    \/ IsSuperset

SpecA == InitA /\ [][NextA]_vars

(***************************************************************************)
(* Properties                                                              *)
(***************************************************************************)
N == Len(ordered_values)

Members == IF kind = "finite" THEN values ELSE DOMAIN values

IsAscending(seq) ==
    \A i, j \in 1..Len(seq) : i < j => Less(seq[i], seq[j])

SameElements(a, b) ==
    /\ Len(a) = Len(b)
    /\ {a[i] : i \in 1..Len(a)} = {b[i] : i \in 1..Len(b)}

\* The mapping of s gives every element of the sequence its 0-based index.
MappingMatches(s) ==
    /\ DOMAIN s.values = {s.ordered_values[i] : i \in 1..Len(s.ordered_values)}
    /\ \A i \in 1..Len(s.ordered_values) :
           s.values[s.ordered_values[i]] = i - 1

\* add as the object's class defines it.
Add(v) ==
    IF kind = "finite" THEN FiniteSetData_add(Self, domain, v)
    ELSE OrderedSetData_add(Self, domain, v)

\* r is the outcome of stepping delta positions from member v without
\* wrapping: the element at the target position, or an IndexError when the
\* target is outside 1..N.
StepsWithoutWrap(r, v, delta) ==
    LET n == Len(r.st.ordered_values)
        target == r.st.values[v] + 1 + delta
    IN IF target \in 1..n
       THEN r.outcome = "ok" /\ r.elem = r.st.ordered_values[target]
       ELSE r.outcome \in IndexErrors

\* C1: for a member at position p, next(item, step) and prev(item, step)
\* return the element at p+step (p-step) when that position is in 1..N and
\* raise an IndexError for every other target, zero and negative targets
\* included; they never wrap around.
C1_NextPrevNeverWrap ==
    kind = "ordered" =>
        \A v \in DOMAIN values, step \in Indices :
            /\ StepsWithoutWrap(next(Self, ordering, v, step), v, step)
            /\ StepsWithoutWrap(prev(Self, ordering, v, step), v, -step)

\* C2: whenever the order state is not SortNeeded, the sequence and the
\* mapping agree: the keys are the elements of the sequence, the positions
\* are 1..N without gap or repeat, index(ord(x)) = x for every member and
\* ord(index(i)) = i for every i in 1..N.
C2_SequenceAndMappingConsistent ==
    (kind = "ordered" /\ is_sorted # SortNeeded) =>
        /\ MappingMatches(Self)
        /\ Cardinality(DOMAIN values) = N
        /\ {values[x] + 1 : x \in DOMAIN values} = 1..N
        /\ \A x \in DOMAIN values :
               LET p == ord(Self, ordering, x)
                   e == getitem(p.st, ordering, p.pos)
               IN p.outcome = "ok" /\ e.outcome = "ok" /\ e.elem = x
        /\ \A i \in 1..N :
               LET e == getitem(Self, ordering, i)
                   p == ord(e.st, ordering, e.elem)
               IN e.outcome = "ok" /\ p.outcome = "ok" /\ p.pos = i

C2_Witness ==
    /\ kind = "ordered"
    /\ call.op = "ord"
    /\ call.was = SortNeeded
    /\ is_sorted = Sorted
    /\ N >= 3

\* C3: whenever the order state is Sorted, the sequence is ascending in the
\* total order, and sorted() returns that ascending sequence.
C3_SortedStateIsAscending ==
    (kind = "ordered" /\ is_sorted = Sorted) =>
        /\ IsAscending(ordered_values)
        /\ IsAscending(OrderedSetData_sorted(Self, ordering).seq)

\* C4: add of a value of the domain whose canonical form is new appends it
\* to the end of the sequence at the next free position and does not
\* resort; a Sorted set becomes SortNeeded, any other order state stays.
C4_AddAppendsWithoutResort ==
    kind = "ordered" =>
        \A v \in domain :
            LET c == flatten_tuple(v)
                r == OrderedSetData_add(Self, domain, v)
            IN c \notin DOMAIN values =>
                /\ r.outcome = "ok"
                /\ r.st.ordered_values = Append(ordered_values, c)
                /\ DOMAIN r.st.values = DOMAIN values \cup {c}
                /\ r.st.values[c] + 1 = Cardinality(DOMAIN values) + 1
                /\ \A x \in DOMAIN values : r.st.values[x] = values[x]
                /\ r.st.is_sorted =
                       IF is_sorted = Sorted THEN SortNeeded ELSE is_sorted

C4_Witness ==
    /\ kind = "ordered"
    /\ call.op = "add"
    /\ call.outcome = "ok"
    /\ call.was = Sorted
    /\ is_sorted = SortNeeded
    /\ ~IsAscending(ordered_values)

\* s is the object after an order-dependent access that found it as Self:
\* the order is resolved, and a SortNeeded sequence has been sorted and its
\* mapping rebuilt.
ResolvedFromSelf(s) ==
    /\ s.is_sorted \in DataOK
    /\ is_sorted = SortNeeded =>
           /\ s.is_sorted = Sorted
           /\ IsAscending(s.ordered_values)
           /\ SameElements(s.ordered_values, ordered_values)
           /\ MappingMatches(s)

\* C5: iterate, data, index and ord resolve the order before answering:
\* they leave the order state InsertionOrder or Sorted, from SortNeeded the
\* sequence is sorted and the mapping rebuilt, and the answer is read from
\* the resolved sequence.
C5_AccessResolvesOrder ==
    kind = "ordered" =>
        /\ call.op \in {"iter", "data", "getitem", "ord"} =>
               is_sorted \in DataOK
        /\ LET r == OrderedSetData_iter(Self, ordering)
           IN ResolvedFromSelf(r.st) /\ r.seq = r.st.ordered_values
        /\ LET r == OrderedSetData_data(Self, ordering)
           IN ResolvedFromSelf(r.st) /\ r.seq = r.st.ordered_values
        /\ \A i \in Indices :
               LET r == getitem(Self, ordering, i)
               IN /\ ResolvedFromSelf(r.st)
                  /\ i \in 1..N => r.elem = r.st.ordered_values[i]
        /\ \A v \in RawValues :
               LET r == ord(Self, ordering, v)
               IN /\ ResolvedFromSelf(r.st)
                  /\ v \in DOMAIN values =>
                         r.st.ordered_values[r.pos] = v

C5_Witness ==
    /\ kind = "ordered"
    /\ call.op = "iter"
    /\ call.was = SortNeeded
    /\ is_sorted = Sorted
    /\ N >= 2

\* C6: for a member at position p of a set of N >= 1 elements and any
\* step, nextw returns the element at ((p + step - 1) mod N) + 1 and prevw
\* the one at ((p - step - 1) mod N) + 1; nextw(last) is the first
\* element, prevw(first) the last, and neither fails.
C6_NextwWraps ==
    kind = "ordered" =>
        \A v \in DOMAIN values, step \in Indices :
            LET r == nextw(Self, ordering, v, step)
                q == prevw(Self, ordering, v, step)
                seq == r.st.ordered_values
                n == Len(seq)
                p == r.st.values[v] + 1
            IN /\ r.outcome = "ok"
               /\ r.elem = seq[((p + step - 1) % n) + 1]
               /\ q.outcome = "ok"
               /\ q.elem = seq[((p - step - 1) % n) + 1]
               /\ (p = n /\ step = 1) => r.elem = seq[1]
               /\ (p = 1 /\ step = 1) => q.elem = seq[n]

C6_Witness ==
    /\ kind = "ordered"
    /\ call.op = "nextw"
    /\ call.outcome = "ok"
    /\ is_sorted \in DataOK
    /\ N >= 2
    /\ nextw(Self, ordering, ordered_values[N], 1).elem = ordered_values[1]

\* C7: index(i) is the i-th element for 1 <= i <= N, the |i|-th from the
\* end for -N <= i <= -1, and an IndexError for i = 0, i > N and i < -N;
\* first() is index(1) and last() is index(-1) of a non-empty set.
C7_IndexContract ==
    kind = "ordered" =>
        /\ \A i \in Indices :
               LET r == getitem(Self, ordering, i)
                   seq == r.st.ordered_values
                   n == Len(seq)
               IN /\ (1 <= i /\ i <= n) =>
                         r.outcome = "ok" /\ r.elem = seq[i]
                  /\ (-n <= i /\ i <= -1) =>
                         r.outcome = "ok" /\ r.elem = seq[n + 1 + i]
                  /\ (i = 0 \/ i > n \/ i < -n) =>
                         r.outcome \in {"PastLast", "BeforeFirst",
                                        "InvalidIndex"}
        /\ N >= 1 =>
               /\ first(Self, ordering) = getitem(Self, ordering, 1)
               /\ last(Self, ordering) = getitem(Self, ordering, -1)

C7_Witness ==
    /\ kind = "ordered"
    /\ call.op = "getitem"
    /\ call.outcome = "ok"
    /\ N >= 2
    /\ is_sorted \in DataOK
    /\ getitem(Self, ordering, -N).elem = ordered_values[1]

\* C8: ord, next, prev, nextw and prevw of a value that is not a member
\* raise the "item not in Set" IndexError, for every step and every size
\* of the set, the empty set included.
C8_AbsentItemNotFound ==
    kind = "ordered" =>
        \A v \in RawValues \ DOMAIN values :
            /\ ord(Self, ordering, v).outcome = "NotFound"
            /\ \A step \in Indices :
                   /\ next(Self, ordering, v, step).outcome = "NotFound"
                   /\ prev(Self, ordering, v, step).outcome = "NotFound"
                   /\ nextw(Self, ordering, v, step).outcome = "NotFound"
                   /\ prevw(Self, ordering, v, step).outcome = "NotFound"

C8_Witness ==
    /\ kind = "ordered"
    /\ call.op = "nextw"
    /\ call.outcome = "NotFound"
    /\ N = 0

\* C9 as claimed: add of any value whose canonical form is a member raises
\* no error and changes nothing.
C9_DuplicateAddNeverFails ==
    \A v \in RawValues :
        flatten_tuple(v) \in Members =>
            /\ Add(v).outcome \in {"ok", "warned"}
            /\ Add(v).st = Self

\* C9 as amended: add of a value that is in the domain and whose canonical
\* form is a member logs a warning, raises no error and leaves the element
\* store, the sequence, the mapping and the order state as they were.
C9_DuplicateAddInDomainIsNoOp ==
    \A v \in domain :
        flatten_tuple(v) \in Members =>
            /\ Add(v).outcome = "warned"
            /\ Add(v).st = Self

C9_Witness ==
    /\ kind = "ordered"
    /\ call.op = "add"
    /\ call.outcome = "warned"
    /\ call.was = Sorted
    /\ is_sorted = Sorted
    /\ N >= 2

\* C10: add of a value that is not in the domain raises the domain error
\* and leaves the element store, the sequence, the mapping and the order
\* state as they were, in a finite and in an ordered set.
C10_DomainRejectionLeavesSet ==
    \A v \in RawValues \ domain :
        /\ Add(v).outcome = "DomainViolation"
        /\ Add(v).st = Self

C10_Witness ==
    /\ call.op = "add"
    /\ call.outcome = "DomainViolation"
    /\ Cardinality(Members) >= 1

\* The classes of the two objects of the algebra.
SelfFinite == SelfSet.cls = "finite"
OtherFinite == other.cls = "finite"
BothInfinite == ~SelfFinite /\ ~OtherFinite

\* C11: for two infinite sets isdisjoint returns True when every range of
\* the one is disjoint from every range of the other and False otherwise.
C11_InfiniteDisjointIsBoolean ==
    (BothInfinite /\ call.op = "isdisjoint") =>
        call.outcome =
            Py(\A i \in 1..Len(ranges), j \in 1..Len(other.ranges) :
                   range_isdisjoint(ranges[i], other.ranges[j]))

\* C12: for two infinite sets issuperset returns True exactly when every
\* range of other is a subset of some range of self, so that
\* A.issuperset(B) equals B.issubset(A).
C12_InfiniteSupersetMirrorsSubset ==
    (BothInfinite /\ call.op = "issuperset") =>
        /\ call.outcome =
               Py(\A j \in 1..Len(other.ranges) :
                      \E i \in 1..Len(ranges) :
                          range_issubset(other.ranges[j], ranges[i]))
        /\ call.outcome = issubset(other, SelfSet)

\* C13: issubset returns False whenever exactly one of the two sets is
\* infinite, whichever it is and whatever the finite set holds.
C13_MixedSubsetAlwaysFalse ==
    ((SelfFinite # OtherFinite) /\ call.op = "issubset") =>
        call.outcome = "False"

\* C14: equals is, for two finite sets, "same cardinality and every
\* element of self in other"; False when exactly one set is infinite; and
\* for two infinite sets the equality of the two range lists as given.
C14_EqualsContract ==
    LET e == call.outcome
    IN call.op = "eq" =>
       /\ (SelfFinite /\ OtherFinite) =>
              e = Py(/\ Cardinality(values) = Cardinality(other.values)
                     /\ values \subseteq other.values)
       /\ (SelfFinite # OtherFinite) => e = "False"
       /\ BothInfinite =>
              e = Py(/\ Len(ranges) = Len(other.ranges)
                     /\ \A i \in 1..Len(ranges) :
                            ranges[i] = other.ranges[i])

\* C15: for finite sets A and B, A.issubset(B) and B.issubset(A) imply
\* A.equals(B); A.issubset(A) and A.equals(A) hold.
C15_FiniteAntisymmetryReflexivity ==
    (SelfFinite /\ OtherFinite) =>
        /\ (/\ issubset(SelfSet, other) = "True"
            /\ issubset(other, SelfSet) = "True") =>
               SetData_eq(SelfSet, other, FALSE) = "True"
        /\ issubset(SelfSet, SelfSet) = "True"
        /\ SetData_eq(SelfSet, SelfSet, TRUE) = "True"

\* The sequence seq holds no element twice.
NoRepeat(seq) == \A i, j \in 1..Len(seq) : seq[i] = seq[j] => i = j

\* C16: finite and ordered sets are append-only: in every step (an add
\* that succeeds, warns or is rejected, an order-dependent access, a
\* resort) every contained element stays contained and the length does not
\* decrease, and a resort leaves a sequence with the same elements, none
\* dropped and none repeated.
C16_AppendOnly ==
    [][LET after == Self'
       IN /\ \A x \in RawValues :
                 FiniteSetData_contains(kind, Self, x) =>
                     FiniteSetData_contains(kind, after, x)
          /\ Cardinality(Members') >= Cardinality(Members)
          /\ kind = "ordered" => len(after) >= len(Self)
          /\ (kind = "ordered" /\ is_sorted = SortNeeded
                  /\ after.is_sorted # SortNeeded) =>
                 /\ SameElements(ordered_values, after.ordered_values)
                 /\ NoRepeat(after.ordered_values)
                 /\ DOMAIN after.values = DOMAIN values]_vars

C16_Witness ==
    /\ kind = "ordered"
    /\ call.op = "getitem"
    /\ call.outcome = "ok"
    /\ call.was = SortNeeded
    /\ is_sorted = Sorted
    /\ N = 3

\* C17: in an ordered set whose order resolves to InsertionOrder, a step
\* never changes the position of an element; an add of a new element gives
\* it the next position k = N + 1, so that ord answers k, index(k) and
\* index(-1) answer the element; and ord and index agree with the sequence
\* at every position, before and after the first order-dependent access.
C17_InsertionOrderPositions ==
    [][(kind = "ordered" /\ ordering = InsertionOrder) =>
          LET after == Self'
              n == Len(after.ordered_values)
              newest == after.ordered_values[n]
          IN /\ \A x \in DOMAIN values :
                    /\ x \in DOMAIN after.values
                    /\ after.values[x] = values[x]
                    /\ ord(after, ordering, x).pos = ord(Self, ordering, x).pos
             /\ \A k \in 1..N : after.ordered_values[k] = ordered_values[k]
             /\ n # N =>
                    /\ n = N + 1
                    /\ newest \notin DOMAIN values
                    /\ ord(after, ordering, newest).outcome = "ok"
                    /\ ord(after, ordering, newest).pos = N + 1
                    /\ getitem(after, ordering, n).elem = newest
                    /\ getitem(after, ordering, -1).outcome = "ok"
                    /\ getitem(after, ordering, -1).elem = newest
             /\ \A k \in 1..n :
                    LET e == getitem(after, ordering, k)
                    IN /\ e.outcome = "ok"
                       /\ e.elem = after.ordered_values[k]
                       /\ ord(after, ordering, e.elem).pos = k]_vars

C17_Witness ==
    /\ kind = "ordered"
    /\ ordering = InsertionOrder
    /\ call.op = "add"
    /\ call.outcome = "ok"
    /\ call.was = InsertionOrder
    /\ is_sorted = InsertionOrder
    /\ N = 3
    /\ ~IsAscending(ordered_values)

\* C18: after add(v) has returned, the set contains the value v that was
\* passed to add, and ord(v) of an ordered set succeeds, for every value
\* of the domain, a tuple with a nested tuple included.
C18_AddedValueIsFound ==
    \A v \in RawValues :
        LET r == Add(v)
        IN r.outcome \in {"ok", "warned"} =>
            /\ FiniteSetData_contains(kind, r.st, v)
            /\ kind = "ordered" => ord(r.st, ordering, v).outcome = "ok"

TypeOK ==
    /\ kind \in {"finite", "ordered"}
    /\ domain \in Domains
    /\ is_sorted \in {Unresolved, InsertionOrder, Sorted, SortNeeded}

====
